---- MODULE Spec2Model ----
(***************************************************************************)
(* Model of programs/validator-history/src/state.rs: the fixed-capacity    *)
(* circular buffer of per-epoch history entries (CircBuf) and the          *)
(* ValidatorHistory setters that write into it.                            *)
(*                                                                         *)
(* Number representation.  u8 and u16 values, indices, epochs and          *)
(* timestamps are naturals.  u32 and u64 values that carry an all-ones     *)
(* sentinel or take part in arithmetic are kept at their full width as     *)
(* tuples of 16-bit limbs, most significant limb first (2 limbs for u32,   *)
(* 4 limbs for u64), because the model checker's integers are narrower     *)
(* than 32 unsigned bits.                                                  *)
(***************************************************************************)
EXTENDS Integers, Sequences, FiniteSets, TLC

VARIABLES
    vh,      \* the ValidatorHistory account: watermarks and the CircBuf
    op,      \* name of the last operation called ("init" before any call)
    res,     \* what the last call returned: "Ok", an error name, or "panic"
    arg,     \* the arguments of the last call
    touched, \* the slots whose content the last call changed
    calls,   \* number of calls made so far
    pushed,  \* log of the entries handed to CircBuf::push (ring scenario only)
    ordered  \* no appending setter other than set_stake was yet called with
             \* an epoch older than the newest entry's

vars == <<vh, op, res, arg, touched, calls, pushed, ordered>>

-----------------------------------------------------------------------------
(* Bounds of the model *)

\* capacity of the ring (512 in the program, scaled down)
MAX_ITEMS == 3

\* number of setter calls explored when all eight setters are enabled
MaxCalls == 3

\* number of calls explored in the stake and ring scenarios: enough to fill
\* the ring, wrap once and make one more call
MaxScenarioCalls == MAX_ITEMS + 2

\* number of calls explored in the credits scenario: three appends, a batch
\* that records credits and a batch that meets them
MaxCreditsCalls == 5
MaxAppendCalls == MaxCalls + 1

\* longest epoch-credits batch
MaxBatch == MAX_ITEMS

-----------------------------------------------------------------------------
(* Fixed-width numbers *)

Limb == 2 ^ 16

U8Max == 255

U16Max == 65535

U32Max == <<U16Max, U16Max>>

U64Max == <<U16Max, U16Max, U16Max, U16Max>>

\* a small natural as a u32 / u64
U32(n) == <<n \div Limb, n % Limb>>

U64(n) == <<0, 0, n \div Limb, n % Limb>>

\* `x as u8` of a wider unsigned value
AsU8(n) == n % (U8Max + 1)

\* `x as u32` of a u64: the low 32 bits
AsU32(x) == <<x[3], x[4]>>

\* `b as u8` of a bool
BoolAsU8(b) == IF b THEN 1 ELSE 0

\* u64 order, limb by limb
U64Less(a, b) ==
    \E i \in 1..4 : a[i] < b[i] /\ \A j \in 1..(i - 1) : a[j] = b[j]

\* u64::checked_sub: <<>> is None, <<d>> is Some(d)
checked_sub(a, b) ==
    IF U64Less(a, b) THEN <<>>
    ELSE LET d4 == a[4] - b[4]
             c4 == IF d4 < 0 THEN 1 ELSE 0
             d3 == a[3] - b[3] - c4
             c3 == IF d3 < 0 THEN 1 ELSE 0
             d2 == a[2] - b[2] - c3
             c2 == IF d2 < 0 THEN 1 ELSE 0
             d1 == a[1] - b[1] - c2
         IN  << <<d1, d2 + c2 * Limb, d3 + c3 * Limb, d4 + c4 * Limb>> >>

\* utils::cast_epoch (u64 -> u16), defined in utils.rs: the value itself for
\* every epoch below the u16 sentinel
cast_epoch(epoch) == epoch % U16Max

-----------------------------------------------------------------------------
(* ValidatorHistoryEntry and CircBuf *)

ClientVersion(major, minor, patch) ==
    [major |-> major, minor |-> minor, patch |-> patch]

ValidatorHistoryEntryDefault ==
    [ activated_stake_lamports      |-> U64Max,
      epoch                         |-> U16Max,
      mev_commission                |-> U16Max,
      epoch_credits                 |-> U32Max,
      commission                    |-> U8Max,
      client_type                   |-> U8Max,
      version                       |-> ClientVersion(U8Max, U8Max, U16Max),
      ip                            |-> <<U8Max, U8Max, U8Max, U8Max>>,
      is_superminority              |-> U8Max,
      rank                          |-> U32Max,
      vote_account_last_update_slot |-> U64Max ]

Slots == 0..(MAX_ITEMS - 1)

CircBufDefault ==
    [ arr      |-> [i \in Slots |-> ValidatorHistoryEntryDefault],
      idx      |-> 0,
      is_empty |-> 1 ]

\* push writing the slot at the cursor before advancing the cursor
push_WriteThenAdvance(h, item) ==
    [ idx      |-> (h.idx + 1) % MAX_ITEMS,
      arr      |-> [h.arr EXCEPT ![h.idx] = item],
      is_empty |-> 0 ]

push(h, item) ==
    LET i == (h.idx + 1) % MAX_ITEMS
    IN  [ idx |-> i, arr |-> [h.arr EXCEPT ![i] = item], is_empty |-> 0 ]

is_empty(h) == h.is_empty = 1

\* Option<&ValidatorHistoryEntry>: <<>> is None, <<e>> is Some(e)
last(h) == IF is_empty(h) THEN <<>> ELSE <<h.arr[h.idx]>>

\* the test for an entry of the epoch left out: every call appends
LastHasEpoch_Never(h, epoch) == FALSE

\* last_mut followed by `if entry.epoch == epoch`
LastHasEpoch(h, epoch) == last(h) # <<>> /\ last(h)[1].epoch = epoch

\* the entry at the cursor replaced by a fresh record of the same epoch
WriteLast_Replace(self, fields) ==
    [self EXCEPT !.history.arr[self.history.idx] =
        [f \in DOMAIN @ |-> IF f = "epoch" THEN @[f]
                            ELSE IF f \in DOMAIN fields THEN fields[f]
                            ELSE ValidatorHistoryEntryDefault[f]]]

\* writes through the reference returned by last_mut
WriteLast(self, fields) ==
    [self EXCEPT !.history.arr[self.history.idx] =
        [f \in DOMAIN @ |-> IF f \in DOMAIN fields THEN fields[f] ELSE @[f]]]

\* the struct literal with its `epoch` line left out
NewEntry_EpochUnset(epoch, fields) ==
    [f \in DOMAIN ValidatorHistoryEntryDefault |->
        IF f \in DOMAIN fields THEN fields[f]
        ELSE ValidatorHistoryEntryDefault[f]]

\* ValidatorHistoryEntry { epoch, <fields>, ..ValidatorHistoryEntry::default() }
NewEntry(epoch, fields) ==
    [f \in DOMAIN ValidatorHistoryEntryDefault |->
        IF f = "epoch" THEN epoch
        ELSE IF f \in DOMAIN fields THEN fields[f]
        ELSE ValidatorHistoryEntryDefault[f]]

PushEntry(self, epoch, fields) ==
    [self EXCEPT !.history = push(self.history, NewEntry(epoch, fields))]

Ok(self) == [self |-> self, res |-> "Ok"]

Err(self, e) == [self |-> self, res |-> e]

-----------------------------------------------------------------------------
(* ValidatorHistory setters: each maps the account and the arguments to the *)
(* account after the call and the value returned                            *)

set_mev_commission(self, epoch, commission) ==
    LET fields == [mev_commission |-> commission]
    IN  IF LastHasEpoch(self.history, epoch)
        THEN Ok(WriteLast(self, fields))
        ELSE Ok(PushEntry(self, epoch, fields))

\* the comparison with its operands exchanged: epoch.cmp(&entry.epoch)
EpochCmp_Swapped(entry_epoch, epoch) ==
    IF epoch = entry_epoch THEN "Equal"
    ELSE IF epoch > entry_epoch THEN "Greater"
    ELSE "Less"

\* entry.epoch.cmp(&epoch)
EpochCmp(entry_epoch, epoch) ==
    IF entry_epoch = epoch THEN "Equal"
    ELSE IF entry_epoch > epoch THEN "Greater"
    ELSE "Less"

\* the scan taking the first slot whose epoch is at least the target
ScanForEpoch_AtLeast(h, epoch) ==
    LET found == {i \in Slots : h.arr[i].epoch >= epoch}
    IN  IF found = {} THEN <<>>
        ELSE << CHOOSE j \in found : \A k \in found : j <= k >>

\* the scan `for entry in arr_mut().iter_mut() { if entry.epoch == epoch ...`:
\* <<i>> for the first slot, in array order, that holds the epoch, <<>> if none
ScanForEpoch(h, epoch) ==
    LET found == {i \in Slots : h.arr[i].epoch = epoch}
    IN  IF found = {} THEN <<>>
        ELSE << CHOOSE j \in found : \A k \in found : j <= k >>

set_stake(self, epoch, stake, rank, is_superminority) ==
    LET fields == [ activated_stake_lamports |-> stake,
                    rank                     |-> rank,
                    is_superminority         |-> BoolAsU8(is_superminority) ]
        h == self.history
        ord == IF last(h) = <<>> THEN "None" ELSE EpochCmp(last(h)[1].epoch, epoch)
    IN  CASE ord = "Equal" -> Ok(WriteLast(self, fields))
          [] ord = "Greater" ->
                LET hit == ScanForEpoch(h, epoch)
                IN  IF hit = <<>>
                    THEN Err(self, "EpochOutOfRange")
                    ELSE Ok([self EXCEPT !.history.arr[hit[1]] =
                                [f \in DOMAIN @ |->
                                    IF f \in DOMAIN fields THEN fields[f] ELSE @[f]]])
          [] OTHER -> Ok(PushEntry(self, epoch, fields))

\* the epoch -> delta map built from the batch; a later triple of an epoch
\* replaces an earlier one (HashMap::from_iter).  <<>> stands for the panic of
\* `.ok_or(InvalidEpochCredits).unwrap()` on a triple with cur < prev.
EpochCreditsMap(epoch_credits) ==
    IF \E i \in DOMAIN epoch_credits :
            checked_sub(epoch_credits[i][2], epoch_credits[i][3]) = <<>>
    THEN <<>>
    ELSE << [e \in {cast_epoch(epoch_credits[i][1]) : i \in DOMAIN epoch_credits} |->
              LET i == CHOOSE j \in DOMAIN epoch_credits :
                          /\ cast_epoch(epoch_credits[j][1]) = e
                          /\ \A k \in DOMAIN epoch_credits :
                                cast_epoch(epoch_credits[k][1]) = e => k <= j
              IN  AsU32(checked_sub(epoch_credits[i][2], epoch_credits[i][3])[1])] >>

\* the loop without its break on an identical value
CreditsDiffer_NoBreak(epoch_credits, stored) == TRUE

\* what the loop does at a slot whose epoch is in the map with the stored
\* value: TRUE to overwrite and go on, FALSE to break
CreditsDiffer(epoch_credits, stored) == epoch_credits # stored

\* the walk going forward from the cursor
Position_Forward(idx, i) == (idx + i) % MAX_ITEMS

\* the slot visited in iteration i of the loop
Position(idx, i) == (idx + MAX_ITEMS - i) % MAX_ITEMS

\* iterations i .. len-1 of the loop `for i in 0..len`
RECURSIVE CreditsWalk(_, _, _, _)
CreditsWalk(arr, idx, map, i) ==
    IF i = MAX_ITEMS THEN arr
    ELSE LET position == Position(idx, i)
             entry == arr[position]
         IN  IF entry.epoch \in DOMAIN map
             THEN IF CreditsDiffer(map[entry.epoch], entry.epoch_credits)
                  THEN CreditsWalk(
                          [arr EXCEPT ![position].epoch_credits = map[entry.epoch]],
                          idx, map, i + 1)
                  ELSE arr
             ELSE arr

\* the slots the loop looks at, in the order of its iterations i .. len-1; the
\* slot at which it breaks is the last one
RECURSIVE CreditsVisits(_, _, _, _)
CreditsVisits(arr, idx, map, i) ==
    IF i = MAX_ITEMS THEN <<>>
    ELSE LET position == Position(idx, i)
             entry == arr[position]
         IN  IF entry.epoch \in DOMAIN map
             THEN IF CreditsDiffer(map[entry.epoch], entry.epoch_credits)
                  THEN <<position>> \o CreditsVisits(
                          [arr EXCEPT ![position].epoch_credits = map[entry.epoch]],
                          idx, map, i + 1)
                  ELSE <<position>>
             ELSE <<position>>

\* set_epoch_credits appending an entry for the batch's last epoch when the
\* buffer has none
set_epoch_credits_PushWhenEmpty(self, epoch_credits) ==
    IF epoch_credits = <<>> THEN Ok(self)
    ELSE LET m == EpochCreditsMap(epoch_credits)
         IN  IF m = <<>> THEN Err(self, "panic")
             ELSE LET e == cast_epoch(epoch_credits[Len(epoch_credits)][1])
                      s == IF is_empty(self.history)
                           THEN PushEntry(self, e, [epoch_credits |-> m[1][e]])
                           ELSE self
                  IN  Ok([s EXCEPT !.history.arr =
                            CreditsWalk(s.history.arr, s.history.idx, m[1], 0)])

set_epoch_credits(self, epoch_credits) ==
    IF epoch_credits = <<>> THEN Ok(self)
    ELSE LET m == EpochCreditsMap(epoch_credits)
         IN  IF m = <<>> THEN Err(self, "panic")
             ELSE Ok([self EXCEPT !.history.arr =
                        CreditsWalk(self.history.arr, self.history.idx, m[1], 0)])

set_commission_and_slot(self, epoch, commission, slot) ==
    LET fields == [ commission                    |-> commission,
                    vote_account_last_update_slot |-> slot ]
    IN  IF LastHasEpoch(self.history, epoch)
        THEN Ok(WriteLast(self, fields))
        ELSE Ok(PushEntry(self, epoch, fields))

\* the staleness test left out
GossipDataTooOld_Missing(watermark, ts) == FALSE

\* the staleness test rejecting a timestamp equal to the watermark
GossipDataTooOld_OrEqual(watermark, ts) == watermark >= ts

\* the staleness test of the gossip setters
GossipDataTooOld(watermark, ts) == watermark > ts

\* an IpAddr is <<"V4", octets>> or <<"V6">>
IsV4(addr) == addr[1] = "V4"

VersionFields(v) ==
    [version |-> ClientVersion(AsU8(v.major), AsU8(v.minor), v.patch)]

set_contact_info(self, epoch, contact_info, contact_info_ts) ==
    IF ~IsV4(contact_info.addrs0)
    THEN Err(self, "UnsupportedIpFormat")
    ELSE IF \/ GossipDataTooOld(self.last_ip_timestamp, contact_info_ts)
            \/ GossipDataTooOld(self.last_version_timestamp, contact_info_ts)
    THEN Err(self, "GossipDataTooOld")
    ELSE LET ip == contact_info.addrs0[2]
             fields == [ ip          |-> ip,
                         client_type |-> AsU8(contact_info.version.client),
                         version     |-> VersionFields(contact_info.version).version ]
             s == [self EXCEPT !.last_ip_timestamp = contact_info_ts,
                               !.last_version_timestamp = contact_info_ts]
         IN  IF LastHasEpoch(s.history, epoch)
             THEN Ok(WriteLast(s, fields))
             ELSE Ok(PushEntry(s, epoch, fields))

\* set_legacy_contact_info taking the address out only after the timestamp
\* was tested and the watermark advanced
set_legacy_contact_info_LateAddressTest(self, epoch, legacy_contact_info, contact_info_ts) ==
    IF GossipDataTooOld(self.last_ip_timestamp, contact_info_ts)
    THEN Err(self, "GossipDataTooOld")
    ELSE LET s == [self EXCEPT !.last_ip_timestamp = contact_info_ts]
         IN  IF ~IsV4(legacy_contact_info.gossip_ip)
             THEN Err(s, "UnsupportedIpFormat")
             ELSE LET fields == [ip |-> legacy_contact_info.gossip_ip[2]]
                  IN  IF LastHasEpoch(s.history, epoch)
                      THEN Ok(WriteLast(s, fields))
                      ELSE Ok(PushEntry(s, epoch, fields))

set_legacy_contact_info(self, epoch, legacy_contact_info, contact_info_ts) ==
    IF ~IsV4(legacy_contact_info.gossip_ip)
    THEN Err(self, "UnsupportedIpFormat")
    ELSE IF GossipDataTooOld(self.last_ip_timestamp, contact_info_ts)
    THEN Err(self, "GossipDataTooOld")
    ELSE LET fields == [ip |-> legacy_contact_info.gossip_ip[2]]
             s == [self EXCEPT !.last_ip_timestamp = contact_info_ts]
         IN  IF LastHasEpoch(s.history, epoch)
             THEN Ok(WriteLast(s, fields))
             ELSE Ok(PushEntry(s, epoch, fields))

\* set_version testing the timestamp against both watermarks, as
\* set_contact_info does
set_version_BothWatermarks(self, epoch, version, version_ts) ==
    IF \/ GossipDataTooOld(self.last_ip_timestamp, version_ts)
       \/ GossipDataTooOld(self.last_version_timestamp, version_ts)
    THEN Err(self, "GossipDataTooOld")
    ELSE LET fields == VersionFields(version.version)
             s == [self EXCEPT !.last_version_timestamp = version_ts]
         IN  IF LastHasEpoch(s.history, epoch)
             THEN Ok(WriteLast(s, fields))
             ELSE Ok(PushEntry(s, epoch, fields))

set_version(self, epoch, version, version_ts) ==
    IF GossipDataTooOld(self.last_version_timestamp, version_ts)
    THEN Err(self, "GossipDataTooOld")
    ELSE LET fields == VersionFields(version.version)
             s == [self EXCEPT !.last_version_timestamp = version_ts]
         IN  IF LastHasEpoch(s.history, epoch)
             THEN Ok(WriteLast(s, fields))
             ELSE Ok(PushEntry(s, epoch, fields))

set_legacy_version(self, epoch, legacy_version, version_ts) ==
    IF GossipDataTooOld(self.last_version_timestamp, version_ts)
    THEN Err(self, "GossipDataTooOld")
    ELSE LET fields == VersionFields(legacy_version.version)
             s == [self EXCEPT !.last_version_timestamp = version_ts]
         IN  IF LastHasEpoch(s.history, epoch)
             THEN Ok(WriteLast(s, fields))
             ELSE Ok(PushEntry(s, epoch, fields))

-----------------------------------------------------------------------------
(* Inputs *)

\* epochs of the scenario of the three independent sources: as many as the
\* ring holds
AppendEpochs == 100..(99 + MAX_ITEMS)

\* epochs of the stake, credits and ring scenarios: one more than the ring holds
ScenarioEpochs == 100..(100 + MAX_ITEMS)

\* epochs appended in the credits scenario: those of the batches and one that
\* no batch holds
CreditsEpochs == 100..103

\* epochs used when all eight setters are enabled
FewEpochs == {100, 101}

MevCommissions == {500}

\* <<stake, rank, is_superminority>>
StakeInputs == { <<U64(1000), U32(7), TRUE>>, <<U64(2000), U32(3), FALSE>> }

\* <<commission, slot>>
CommissionInputs == { <<10, U64(77)>> }

Timestamps == {50, 100}

ContactInfos ==
    { [ addrs0  |-> a,
        version |-> [client |-> 1, major |-> 1, minor |-> 17, patch |-> 3] ] :
      a \in { <<"V4", <<10, 0, 0, 1>> >>, <<"V6">> } }

LegacyContactInfos ==
    { [gossip_ip |-> a] : a \in { <<"V4", <<10, 0, 0, 2>> >>, <<"V6">> } }

Version2s == { [version |-> [major |-> 1, minor |-> 18, patch |-> 0]] }

LegacyVersions == { [version |-> [major |-> 1, minor |-> 300, patch |-> 9]] }

\* (epoch, cumulative credits, previous cumulative credits): deltas 5 for
\* epoch 100, 7 or 8 for epoch 101, 9 for epoch 102, and one negative delta
Triples ==
    { <<100, U64(5), U64(0)>>,
      <<101, U64(12), U64(5)>>,
      <<101, U64(13), U64(5)>>,
      <<102, U64(21), U64(12)>>,
      <<101, U64(3), U64(5)>> }

\* batches of at most n distinct triples, epochs in non-decreasing order (the
\* map built from a batch depends on the order of its triples only among
\* equal epochs)
BatchesUpTo(n) ==
    UNION { { s \in [1..k -> Triples] :
                /\ \A i \in 1..(k - 1) : s[i][1] <= s[i + 1][1]
                /\ \A i, j \in 1..k : i # j => s[i] # s[j] } : k \in 0..n }

Batches == BatchesUpTo(MaxBatch)

FewBatches == BatchesUpTo(2)

\* triples whose cumulative credits use the whole u64 range: a delta of
\* 2^32 + 5, a delta of 7 between two values above 2^48, a delta of 2^32 - 1
WideTriples ==
    { <<100, <<0, 1, 0, 5>>, U64(0)>>,
      <<101, <<1, 0, 0, 9>>, <<1, 0, 0, 2>>>>,
      <<102, <<0, 0, U16Max, U16Max>>, U64(0)>> }

\* batches of one or two such triples, at most one triple per epoch
WideBatches ==
    { <<t>> : t \in WideTriples }
      \cup { b \in [1..2 -> WideTriples] : b[1][1] < b[2][1] }

-----------------------------------------------------------------------------
(* Specification *)

\* a fresh account: CircBuf::default() and the zeroed watermarks of a newly
\* allocated zero-copy account
Init ==
    /\ vh = [ last_ip_timestamp      |-> 0,
              last_version_timestamp |-> 0,
              history                |-> CircBufDefault ]
    /\ op = "init"
    /\ res = "Ok"
    /\ arg = <<>>
    /\ touched = {}
    /\ calls = 0
    /\ pushed = <<>>
    /\ ordered = TRUE

\* the setters that append when the newest entry is not of their epoch,
\* whatever its epoch is
AppendingSetters ==
    {"set_mev_commission", "set_commission_and_slot", "set_contact_info",
     "set_legacy_contact_info", "set_version", "set_legacy_version"}

\* the call's epoch is not older than the newest entry's
InOrder(self, name, a) ==
    \/ name \notin AppendingSetters
    \/ is_empty(self.history)
    \/ a[1] >= last(self.history)[1].epoch

\* one call of a setter: r is what the setter makes of the account
Call(name, a, r) ==
    /\ vh' = r.self
    /\ op' = name
    /\ res' = r.res
    /\ arg' = a
    /\ touched' = {p \in Slots : r.self.history.arr[p] # vh.history.arr[p]}
    /\ calls' = calls + 1
    /\ ordered' = (ordered /\ InOrder(vh, name, a))
    /\ UNCHANGED pushed

SetMevCommission(E) ==
    \E epoch \in E, commission \in MevCommissions :
        Call("set_mev_commission", <<epoch, commission>>,
             set_mev_commission(vh, epoch, commission))

SetStake(E) ==
    \E epoch \in E, s \in StakeInputs :
        Call("set_stake", <<epoch, s>>, set_stake(vh, epoch, s[1], s[2], s[3]))

SetEpochCredits(B) ==
    \E batch \in B :
        Call("set_epoch_credits", <<batch>>, set_epoch_credits(vh, batch))

SetCommissionAndSlot(E) ==
    \E epoch \in E, c \in CommissionInputs :
        Call("set_commission_and_slot", <<epoch, c>>,
             set_commission_and_slot(vh, epoch, c[1], c[2]))

SetContactInfo(E) ==
    \E epoch \in E, ci \in ContactInfos, ts \in Timestamps :
        Call("set_contact_info", <<epoch, ci, ts>>,
             set_contact_info(vh, epoch, ci, ts))

SetLegacyContactInfo(E) ==
    \E epoch \in E, ci \in LegacyContactInfos, ts \in Timestamps :
        Call("set_legacy_contact_info", <<epoch, ci, ts>>,
             set_legacy_contact_info(vh, epoch, ci, ts))

SetVersion(E) ==
    \E epoch \in E, v \in Version2s, ts \in Timestamps :
        Call("set_version", <<epoch, v, ts>>, set_version(vh, epoch, v, ts))

SetLegacyVersion(E) ==
    \E epoch \in E, v \in LegacyVersions, ts \in Timestamps :
        Call("set_legacy_version", <<epoch, v, ts>>,
             set_legacy_version(vh, epoch, v, ts))

\* entries handed to CircBuf::push directly
RingItems == { NewEntry(e, [mev_commission |-> 500]) : e \in ScenarioEpochs }

Push ==
    \E item \in RingItems :
        /\ vh' = [vh EXCEPT !.history = push(vh.history, item)]
        /\ pushed' = Append(pushed, item)
        /\ op' = "push"
        /\ res' = "Ok"
        /\ arg' = <<item>>
        /\ touched' = {p \in Slots : vh'.history.arr[p] # vh.history.arr[p]}
        /\ calls' = calls + 1
        /\ UNCHANGED ordered

\* all eight setters, any order, any arguments
Next ==
    \/ calls < MaxCalls /\ SetMevCommission(FewEpochs)
    \/ calls < MaxCalls /\ SetStake(FewEpochs)
    \/ calls < MaxCalls /\ SetEpochCredits(FewBatches)
    \/ calls < MaxCalls /\ SetCommissionAndSlot(FewEpochs)
    \/ calls < MaxCalls /\ SetContactInfo(FewEpochs)
    \/ calls < MaxCalls /\ SetLegacyContactInfo(FewEpochs)
    \/ calls < MaxCalls /\ SetVersion(FewEpochs)
    \/ calls < MaxCalls /\ SetLegacyVersion(FewEpochs)

Spec == Init /\ [][Next]_vars

\* stake uploads, in any epoch order, among entries appended by another setter
NextStake ==
    \/ calls < MaxScenarioCalls /\ SetMevCommission(ScenarioEpochs)
    \/ calls < MaxScenarioCalls /\ SetStake(ScenarioEpochs)

SpecStake == Init /\ [][NextStake]_vars

\* epoch-credits batches over entries appended by the commission setter
NextCredits ==
    \/ calls < MaxCreditsCalls /\ SetCommissionAndSlot(CreditsEpochs)
    \/ calls < MaxCreditsCalls /\ SetEpochCredits(Batches)

SpecCredits == Init /\ [][NextCredits]_vars

\* the three setters that fill one entry from independent sources, with
\* enough epochs to fill the ring in order and enough calls to evict an entry
NextAppend ==
    \/ calls < MaxAppendCalls /\ SetMevCommission(AppendEpochs)
    \/ calls < MaxAppendCalls /\ SetCommissionAndSlot(AppendEpochs)
    \/ calls < MaxAppendCalls /\ SetStake(AppendEpochs)

SpecAppend == Init /\ [][NextAppend]_vars

\* epoch-credits batches with cumulative credits of any size
NextWide ==
    \/ calls < MaxCalls /\ SetCommissionAndSlot(CreditsEpochs)
    \/ calls < MaxCalls /\ SetEpochCredits(WideBatches)

SpecWide == Init /\ [][NextWide]_vars

\* the ring alone
NextRing == calls < MaxScenarioCalls /\ Push

SpecRing == Init /\ [][NextRing]_vars

-----------------------------------------------------------------------------
(* Vocabulary of the properties *)

GossipOps ==
    {"set_contact_info", "set_legacy_contact_info", "set_version", "set_legacy_version"}

\* the setter named o applied to the arguments a recorded for a call
Apply(self, o, a) ==
    CASE o = "set_mev_commission" -> set_mev_commission(self, a[1], a[2])
      [] o = "set_stake" -> set_stake(self, a[1], a[2][1], a[2][2], a[2][3])
      [] o = "set_epoch_credits" -> set_epoch_credits(self, a[1])
      [] o = "set_commission_and_slot" ->
            set_commission_and_slot(self, a[1], a[2][1], a[2][2])
      [] o = "set_contact_info" -> set_contact_info(self, a[1], a[2], a[3])
      [] o = "set_legacy_contact_info" ->
            set_legacy_contact_info(self, a[1], a[2], a[3])
      [] o = "set_version" -> set_version(self, a[1], a[2], a[3])
      [] o = "set_legacy_version" -> set_legacy_version(self, a[1], a[2], a[3])

\* the timestamp ts is strictly less than a watermark that setter o consults
Stale(self, o, ts) ==
    CASE o = "set_contact_info" ->
            ts < self.last_ip_timestamp \/ ts < self.last_version_timestamp
      [] o = "set_legacy_contact_info" -> ts < self.last_ip_timestamp
      [] o \in {"set_version", "set_legacy_version"} ->
            ts < self.last_version_timestamp

\* the call (o, a) carries a source address that is not IPv4
NotIPv4(o, a) ==
    \/ o = "set_contact_info" /\ a[2].addrs0[1] # "V4"
    \/ o = "set_legacy_contact_info" /\ a[2].gossip_ip[1] # "V4"

\* some triple of the batch has cumulative_credits_now < cumulative_credits_previous
HasNegativeDelta(batch) ==
    \E i \in DOMAIN batch : U64Less(batch[i][2], batch[i][3])

-----------------------------------------------------------------------------
(* Properties *)

\* C1: over any sequence of setter calls, successful or failing, neither
\* last_ip_timestamp nor last_version_timestamp is ever smaller after a call
\* than it was before the call.
C1_WatermarksNonDecreasing ==
    [][ /\ vh'.last_ip_timestamp >= vh.last_ip_timestamp
        /\ vh'.last_version_timestamp >= vh.last_version_timestamp ]_vars

\* the two watermarks have advanced to different values, and a later
\* set_contact_info older than one of them has been rejected
C1_Witness ==
    /\ op = "set_contact_info"
    /\ res = "GossipDataTooOld"
    /\ vh.last_ip_timestamp = 100
    /\ vh.last_version_timestamp = 50

\* C2 (as stated): a gossip-sourced setter is rejected with GossipDataTooOld
\* exactly when its timestamp is strictly less than a watermark it consults,
\* whatever its other arguments, and a rejected call changes nothing.
C2_StaleExactlyWhenOlder ==
    [][ op' \in GossipOps =>
          /\ (res' = "GossipDataTooOld") <=> Stale(vh, op', arg'[3])
          /\ res' = "GossipDataTooOld" => vh' = vh ]_vars

\* C2 (amended): the same for the calls whose source address is IPv4 (the
\* version setters take no address); a timestamp equal to the watermark is
\* accepted, and a rejected call leaves watermarks, cursor, empty flag and
\* every slot as they were.
C2_StaleExactlyWhenOlderIPv4 ==
    [][ op' \in GossipOps /\ ~NotIPv4(op', arg') =>
          /\ (res' = "GossipDataTooOld") <=> Stale(vh, op', arg'[3])
          /\ res' = "GossipDataTooOld" => vh' = vh ]_vars

\* set_contact_info with timestamp 100, then set_contact_info with timestamp
\* 50: the second call is rejected and the entry still holds the ip,
\* client_type and version of the first
C2_Witness ==
    /\ op = "set_contact_info"
    /\ arg[3] = 50
    /\ res = "GossipDataTooOld"
    /\ calls = 2
    /\ vh.last_ip_timestamp = 100
    /\ vh.last_version_timestamp = 100
    /\ last(vh.history) # <<>>
    /\ last(vh.history)[1].ip = <<10, 0, 0, 1>>
    /\ last(vh.history)[1].client_type = 1
    /\ last(vh.history)[1].version = ClientVersion(1, 17, 3)

\* C3: set_epoch_credits with a batch holding a negative delta returns the
\* InvalidEpochCredits error value and leaves the account unchanged.
C3_NegativeDeltaReturnsError ==
    [][ op' = "set_epoch_credits" /\ HasNegativeDelta(arg'[1]) =>
          res' = "InvalidEpochCredits" /\ vh' = vh ]_vars

\* the slot i places behind the cursor, wrapping from index 0 to MAX_ITEMS - 1
Behind(idx, i) == IF i <= idx THEN idx - i ELSE idx + MAX_ITEMS - i

\* the recorded entries of the backfill scenario: epochs 100, 101, 102 in
\* consecutive slots, 102 at the cursor, holding epoch_credits 5, 7, 9
InBackfillScenario(self) ==
    LET h == self.history
        e(i) == h.arr[Behind(h.idx, i)]
    IN  /\ h.is_empty = 0
        /\ e(0).epoch = 102 /\ e(0).epoch_credits = U32(9)
        /\ e(1).epoch = 101 /\ e(1).epoch_credits = U32(7)
        /\ e(2).epoch = 100 /\ e(2).epoch_credits = U32(5)

\* a batch whose deltas are {100: 5, 101: 8, 102: 9}
BackfillBatch ==
    << <<100, U64(5), U64(0)>>, <<101, U64(13), U64(5)>>, <<102, U64(21), U64(12)>> >>

\* C4 (as stated): in the backfill scenario, set_epoch_credits with deltas
\* {100: 5, 101: 8, 102: 9} overwrites the epoch_credits of epoch 101 with 8
\* and changes nothing else.
C4_BackfillOverwrites101 ==
    [][ op' = "set_epoch_credits" /\ arg'[1] = BackfillBatch /\ InBackfillScenario(vh) =>
          vh' = [vh EXCEPT !.history.arr[Behind(vh.history.idx, 1)].epoch_credits = U32(8)]
      ]_vars

\* C4 (amended): in the backfill scenario that call succeeds and overwrites
\* nothing: the walk stops at the cursor slot, whose stored value 9 equals
\* its delta, so epoch 101 keeps 7.
C4_BackfillStopsAtCursor ==
    [][ op' = "set_epoch_credits" /\ arg'[1] = BackfillBatch /\ InBackfillScenario(vh) =>
          res' = "Ok" /\ vh' = vh ]_vars

\* the call has been made on the scenario's entries (had it changed anything,
\* epoch 101 would not hold 7 any more)
C4_Witness ==
    /\ op = "set_epoch_credits"
    /\ arg[1] = BackfillBatch
    /\ res = "Ok"
    /\ touched = {}
    /\ InBackfillScenario(vh)

\* C5: for a non-empty valid batch, set_epoch_credits overwrites epoch_credits
\* (with the batch's delta for the slot's epoch) in exactly the maximal run of
\* slots that starts at the cursor and goes backward, wrapping from index 0 to
\* MAX_ITEMS - 1, in which every slot's epoch has a delta that differs from the
\* stored value; nothing at or beyond the slot that ends the run changes.
C5_OverwritesMaximalRun ==
    [][ op' = "set_epoch_credits" /\ arg'[1] # <<>> /\ ~HasNegativeDelta(arg'[1]) =>
          LET delta == EpochCreditsMap(arg'[1])[1]
              h == vh.history
              qualifies(p) ==
                  /\ h.arr[p].epoch \in DOMAIN delta
                  /\ delta[h.arr[p].epoch] # h.arr[p].epoch_credits
              run == CHOOSE r \in 0..MAX_ITEMS :
                        /\ \A i \in 0..(r - 1) : qualifies(Behind(h.idx, i))
                        /\ r < MAX_ITEMS => ~qualifies(Behind(h.idx, r))
              inRun(p) == \E i \in 0..(run - 1) : p = Behind(h.idx, i)
          IN  /\ res' = "Ok"
              /\ vh' = [vh EXCEPT !.history.arr =
                          [p \in Slots |->
                              IF inRun(p)
                              THEN [h.arr[p] EXCEPT
                                      !.epoch_credits = delta[h.arr[p].epoch]]
                              ELSE h.arr[p]]]
      ]_vars

\* a call with deltas {100: 5, 101: 8, 102: 9} has overwritten the cursor
\* slot (epoch 102, in slot 0) alone: the walk wrapped to the last slot, found
\* epoch 101 already holding 8 and stopped there, so the older slot of epoch
\* 100 is still unset although its delta is 5
C5_Witness ==
    /\ op = "set_epoch_credits"
    /\ arg[1] = BackfillBatch
    /\ touched = {0}
    /\ vh.history.idx = 0
    /\ vh.history.arr[0].epoch = 102
    /\ vh.history.arr[0].epoch_credits = U32(9)
    /\ vh.history.arr[Behind(0, 1)].epoch = 101
    /\ vh.history.arr[Behind(0, 1)].epoch_credits = U32(8)
    /\ vh.history.arr[Behind(0, 2)].epoch = 100
    /\ vh.history.arr[Behind(0, 2)].epoch_credits = U32Max

\* the buffer is non-empty and its last entry's epoch is greater than e
LastIsNewerThan(self, e) ==
    self.history.is_empty = 0 /\ self.history.arr[self.history.idx].epoch > e

\* the slots holding epoch e
SlotsOf(self, e) == {p \in Slots : self.history.arr[p].epoch = e}

\* the written slots (an unwritten slot carries the sentinel epoch)
Written(self) == {p \in Slots : self.history.arr[p].epoch # U16Max}

\* C6: out-of-order stake backfill.  When the last entry's epoch is greater
\* than the target and some slot holds the target epoch, set_stake succeeds,
\* writes activated_stake_lamports, rank and is_superminority into one slot
\* holding the target epoch, and changes nothing else: no push (cursor and
\* empty flag unchanged), every other slot and every other field of that slot
\* as before.
C6_StakeBackfillInPlace ==
    [][ /\ op' = "set_stake"
        /\ LastIsNewerThan(vh, arg'[1])
        /\ SlotsOf(vh, arg'[1]) # {}
        => /\ res' = "Ok"
           /\ \E p \in SlotsOf(vh, arg'[1]) :
                vh' = [vh EXCEPT !.history.arr[p] =
                         [@ EXCEPT !.activated_stake_lamports = arg'[2][1],
                                   !.rank = arg'[2][2],
                                   !.is_superminority = BoolAsU8(arg'[2][3])]]
      ]_vars

\* epochs 100, 101, 102 were appended in order and then set_stake(101, ..)
\* wrote the stake into the epoch-101 slot alone: the entry of epoch 102 is
\* still the last one and still has no stake
C6_Witness ==
    /\ op = "set_stake"
    /\ arg[1] = 101
    /\ res = "Ok"
    /\ calls = 4
    /\ touched = {2}
    /\ vh.history.idx = 0
    /\ vh.history.arr[1].epoch = 100
    /\ vh.history.arr[2].epoch = 101
    /\ vh.history.arr[2].activated_stake_lamports = U64(1000)
    /\ vh.history.arr[2].mev_commission = 500
    /\ vh.history.arr[0].epoch = 102
    /\ vh.history.arr[0].activated_stake_lamports = U64Max

\* C7: epoch out of range.  Whenever the last entry's epoch is greater than the
\* target and no slot holds the target epoch, set_stake returns
\* EpochOutOfRange and leaves slots, cursor, empty flag and watermarks
\* unchanged; so it does for an epoch older than the oldest one retained by a
\* buffer filled with MAX_ITEMS consecutive epochs.
C7_EpochOutOfRangeUnchanged ==
    [][ /\ op' = "set_stake"
        /\ LastIsNewerThan(vh, arg'[1])
        /\ SlotsOf(vh, arg'[1]) = {}
        => res' = "EpochOutOfRange" /\ vh' = vh ]_vars

\* MAX_ITEMS + 1 consecutive epochs were appended, which evicted the first,
\* and set_stake for that first epoch, now older than every slot's, failed
C7_Witness ==
    /\ op = "set_stake"
    /\ arg[1] = 100
    /\ res = "EpochOutOfRange"
    /\ calls = MAX_ITEMS + 2
    /\ touched = {}
    /\ vh.history.idx = 1
    /\ \A i \in 0..(MAX_ITEMS - 1) :
          vh.history.arr[Behind(1, i)].epoch = 100 + MAX_ITEMS - i

\* C8 (as stated): whenever set_stake fails with EpochOutOfRange, the target
\* epoch is strictly less than the epoch of every written slot.
C8_OutOfRangeOlderThanAll ==
    [][ op' = "set_stake" /\ res' = "EpochOutOfRange" =>
          \A p \in Written(vh) : arg'[1] < vh.history.arr[p].epoch ]_vars

\* C8 (amended): whenever set_stake fails with EpochOutOfRange, the buffer is
\* non-empty, the target epoch is strictly less than the last entry's epoch,
\* and no slot holds the target epoch (older slots may hold smaller epochs).
C8_OutOfRangeOlderThanLast ==
    [][ op' = "set_stake" /\ res' = "EpochOutOfRange" =>
          LastIsNewerThan(vh, arg'[1]) /\ SlotsOf(vh, arg'[1]) = {} ]_vars

\* set_stake failed for an epoch that lies between two retained epochs
C8_Witness ==
    /\ op = "set_stake"
    /\ res = "EpochOutOfRange"
    /\ \E p \in Written(vh) : vh.history.arr[p].epoch < arg[1]
    /\ \E p \in Written(vh) : vh.history.arr[p].epoch > arg[1]

\* the number of pushes made in the ring scenario
Pushes == Len(pushed)

\* the pushes whose entries the ring still holds: the last min(k, MAX_ITEMS)
Retained == {i \in 1..Pushes : i > Pushes - MAX_ITEMS}

\* C9: ring wraparound and retention.  After k >= 1 pushes into an empty
\* CircBuf the buffer is non-empty, last() is the k-th pushed entry, and the
\* array holds exactly the most recent min(k, MAX_ITEMS) pushed entries (the
\* i-th in slot i mod MAX_ITEMS, every other slot still unwritten); after
\* MAX_ITEMS pushes every pushed entry is present, and after MAX_ITEMS + 1 the
\* first one is in no slot: a scan for its epoch finds nothing unless a later
\* entry carries the same epoch.
C9_RingRetainsMostRecent ==
    Pushes >= 1 =>
        /\ ~is_empty(vh.history)
        /\ last(vh.history) = <<pushed[Pushes]>>
        /\ \A i \in Retained : vh.history.arr[i % MAX_ITEMS] = pushed[i]
        /\ \A p \in Slots :
              (\A i \in Retained : i % MAX_ITEMS # p) =>
                  vh.history.arr[p] = ValidatorHistoryEntryDefault
        /\ Pushes = MAX_ITEMS =>
              \A i \in 1..Pushes : \E p \in Slots : vh.history.arr[p] = pushed[i]
        /\ /\ Pushes = MAX_ITEMS + 1
           /\ \A i \in 2..Pushes : pushed[i].epoch # pushed[1].epoch
           => SlotsOf(vh, pushed[1].epoch) = {}

\* MAX_ITEMS + 1 entries of distinct epochs have been pushed: the cursor has
\* wrapped past index 0 and the last push has overwritten the first entry
C9_Witness ==
    /\ op = "push"
    /\ Pushes = MAX_ITEMS + 1
    /\ \A i, j \in 1..Pushes : i # j => pushed[i].epoch # pushed[j].epoch
    /\ vh.history.idx = 1
    /\ vh.history.arr[1] = pushed[MAX_ITEMS + 1]
    /\ vh.history.arr[1] # pushed[1]

\* C10: idempotence.  After any call of a setter, the same setter called again
\* with the same arguments returns the same kind of result and leaves the
\* account (slots, cursor, empty flag, watermarks) exactly as the first call
\* left it.
C10_SecondCallChangesNothing ==
    [][ LET again == Apply(vh', op', arg')
        IN  again.self = vh' /\ again.res = res' ]_vars

\* a first call that appended an entry and advanced a watermark has been
\* made from a state where an older entry and a different watermark existed
C10_Witness ==
    /\ op = "set_contact_info"
    /\ res = "Ok"
    /\ arg[3] = 100
    /\ calls = 3
    /\ touched # {}
    /\ vh.history.idx = 2
    /\ vh.last_ip_timestamp = 100

\* the fields a call of setter o with arguments a is to write, and their values
TargetFields(o, a) ==
    CASE o = "set_mev_commission" -> [mev_commission |-> a[2]]
      [] o = "set_commission_and_slot" ->
            [commission |-> a[2][1], vote_account_last_update_slot |-> a[2][2]]
      [] o = "set_stake" ->
            [ activated_stake_lamports |-> a[2][1],
              rank                     |-> a[2][2],
              is_superminority         |-> IF a[2][3] THEN 1 ELSE 0 ]

\* entry e with the fields of f laid over it
Overlay(e, f) == [k \in DOMAIN e |-> IF k \in DOMAIN f THEN f[k] ELSE e[k]]

\* the call (o, a) is one that updates in place or appends: any call of
\* set_mev_commission or set_commission_and_slot, and a set_stake whose epoch
\* is not older than the newest entry's
UpdatesOrAppends(self, o, a) ==
    \/ o \in {"set_mev_commission", "set_commission_and_slot"}
    \/ /\ o = "set_stake"
       /\ is_empty(self.history) \/ self.history.arr[self.history.idx].epoch <= a[1]

\* C11: update-in-place-or-append.  For set_mev_commission and
\* set_commission_and_slot with any epoch, and for set_stake when the buffer is
\* empty or the last entry's epoch is <= the target: if the buffer is non-empty
\* and the last entry's epoch equals the target, only the target fields of the
\* slot at the cursor change and the cursor does not move; otherwise the cursor
\* advances by one modulo MAX_ITEMS, the slot it arrives at holds the target
\* epoch, the supplied values and the sentinel in every other field, and no
\* other slot changes.
C11_UpdateInPlaceOrAppend ==
    [][ UpdatesOrAppends(vh, op', arg') =>
          LET h == vh.history
              f == TargetFields(op', arg')
              n == (h.idx + 1) % MAX_ITEMS
          IN  /\ res' = "Ok"
              /\ vh'.last_ip_timestamp = vh.last_ip_timestamp
              /\ vh'.last_version_timestamp = vh.last_version_timestamp
              /\ IF h.is_empty = 0 /\ h.arr[h.idx].epoch = arg'[1]
                 THEN /\ vh'.history.idx = h.idx
                      /\ vh'.history.is_empty = 0
                      /\ vh'.history.arr =
                           [h.arr EXCEPT ![h.idx] = Overlay(h.arr[h.idx], f)]
                 ELSE /\ vh'.history.idx = n
                      /\ vh'.history.is_empty = 0
                      /\ vh'.history.arr[n] =
                           Overlay([ValidatorHistoryEntryDefault
                                      EXCEPT !.epoch = arg'[1]], f)
                      /\ \A p \in Slots \ {n} : vh'.history.arr[p] = h.arr[p]
      ]_vars

\* both paths taken: set_commission_and_slot has appended the entry that
\* wrapped the cursor to slot 0, and a set_stake of the same epoch has then
\* written into it in place, the commission staying where it was
C11_Witness ==
    /\ op = "set_stake"
    /\ res = "Ok"
    /\ calls = MAX_ITEMS + 1
    /\ touched = {vh.history.idx}
    /\ vh.history.idx = 0
    /\ \A p \in Slots : vh.history.arr[p].epoch # U16Max
    /\ last(vh.history)[1].epoch = arg[1]
    /\ last(vh.history)[1].commission = 10
    /\ last(vh.history)[1].activated_stake_lamports = arg[2][1]
    /\ last(vh.history)[1].mev_commission = U16Max

\* history h2 is history h after an update in place or an append of the fields
\* f for the epoch: the entry at the cursor when its epoch is the target's,
\* otherwise the next slot, holding the epoch, f and sentinels; nothing else
\* differs
UpdatedOrAppended(h, h2, epoch, f) ==
    LET n == (h.idx + 1) % MAX_ITEMS
    IN  IF h.is_empty = 0 /\ h.arr[h.idx].epoch = epoch
        THEN h2 = [h EXCEPT !.arr[h.idx] = Overlay(h.arr[h.idx], f)]
        ELSE h2 = [ idx      |-> n,
                    is_empty |-> 0,
                    arr      |-> [h.arr EXCEPT ![n] =
                                    Overlay([ValidatorHistoryEntryDefault
                                               EXCEPT !.epoch = epoch], f)] ]

\* the version fields as stored: major and minor in one byte, patch in two
StoredVersion(v) ==
    [major |-> v.major % 256, minor |-> v.minor % 256, patch |-> v.patch]

\* C12: an accepted set_contact_info(epoch, info, ts) sets both watermarks to
\* ts and writes ip, client_type and version together into the entry for the
\* epoch (the last entry if its epoch matches, otherwise a newly pushed
\* all-sentinel record); no other field of that entry and no other slot
\* changes.
C12_ContactInfoWritesTogether ==
    [][ op' = "set_contact_info" /\ res' = "Ok" =>
          LET info == arg'[2]
              f == [ ip          |-> info.addrs0[2],
                     client_type |-> info.version.client % 256,
                     version     |-> StoredVersion(info.version) ]
          IN  /\ vh'.last_ip_timestamp = arg'[3]
              /\ vh'.last_version_timestamp = arg'[3]
              /\ UpdatedOrAppended(vh.history, vh'.history, arg'[1], f)
      ]_vars

\* set_contact_info of timestamp 100 has been accepted for the epoch of the
\* last entry, which another setter had appended: the entry has the address,
\* client and version beside the commission it already had, and both
\* watermarks are 100
C12_Witness ==
    /\ op = "set_contact_info"
    /\ res = "Ok"
    /\ calls = 3
    /\ touched = {vh.history.idx}
    /\ vh.history.idx = 1
    /\ vh.last_ip_timestamp = 100
    /\ vh.last_version_timestamp = 100
    /\ last(vh.history)[1].epoch = arg[1]
    /\ last(vh.history)[1].ip = <<10, 0, 0, 1>>
    /\ last(vh.history)[1].client_type = 1
    /\ last(vh.history)[1].version = ClientVersion(1, 17, 3)
    /\ last(vh.history)[1].commission = 10

\* C13: the single-watermark gossip setters are independent of the other
\* watermark.  set_legacy_contact_info (which requires an IPv4 address) is
\* accepted or rejected by last_ip_timestamp alone, advances only
\* last_ip_timestamp and writes only ip; set_version and set_legacy_version are decided by
\* last_version_timestamp alone, advance only last_version_timestamp and write
\* only the version fields; the other watermark and all other fields of the
\* entry are unchanged.
C13_SingleWatermarkSetters ==
    [][ /\ op' = "set_legacy_contact_info" =>
             /\ (res' = "Ok") <=> /\ arg'[2].gossip_ip[1] = "V4"
                                  /\ arg'[3] >= vh.last_ip_timestamp
             /\ vh'.last_version_timestamp = vh.last_version_timestamp
             /\ res' = "Ok" =>
                  /\ vh'.last_ip_timestamp = arg'[3]
                  /\ UpdatedOrAppended(vh.history, vh'.history, arg'[1],
                                       [ip |-> arg'[2].gossip_ip[2]])
             /\ res' # "Ok" => vh' = vh
        /\ op' \in {"set_version", "set_legacy_version"} =>
             /\ (res' = "Ok") <=> arg'[3] >= vh.last_version_timestamp
             /\ vh'.last_ip_timestamp = vh.last_ip_timestamp
             /\ res' = "Ok" =>
                  /\ vh'.last_version_timestamp = arg'[3]
                  /\ UpdatedOrAppended(vh.history, vh'.history, arg'[1],
                                       [version |-> StoredVersion(arg'[2].version)])
             /\ res' # "Ok" => vh' = vh
      ]_vars

\* set_version with a timestamp older than last_ip_timestamp has been accepted
\* and has written the version into the entry that holds the address of the
\* newer set_legacy_contact_info, leaving last_ip_timestamp where it was
C13_Witness ==
    /\ op = "set_version"
    /\ res = "Ok"
    /\ arg[3] = 50
    /\ vh.last_ip_timestamp = 100
    /\ vh.last_version_timestamp = 50
    /\ touched = {vh.history.idx}
    /\ last(vh.history)[1].ip = <<10, 0, 0, 2>>
    /\ last(vh.history)[1].version = ClientVersion(1, 18, 0)
    /\ last(vh.history)[1].client_type = U8Max

\* C14: set_contact_info and set_legacy_contact_info called with a source
\* address that is not IPv4 fail with UnsupportedIpFormat before any write:
\* neither watermark advances, even when the timestamp is newer than both, the
\* cursor does not move and no slot changes.
C14_NonIPv4FailsBeforeWrite ==
    [][ NotIPv4(op', arg') => res' = "UnsupportedIpFormat" /\ vh' = vh ]_vars

\* set_contact_info with an IPv6 address and timestamp 100 has failed on an
\* account that holds an entry and whose watermarks are both 50
C14_Witness ==
    /\ op = "set_contact_info"
    /\ arg[2].addrs0 = <<"V6">>
    /\ arg[3] = 100
    /\ res = "UnsupportedIpFormat"
    /\ touched = {}
    /\ vh.history.is_empty = 0
    /\ vh.last_ip_timestamp = 50
    /\ vh.last_version_timestamp = 50

\* no two written slots hold the same epoch
OneRecordPerEpoch(self) ==
    \A p, q \in Written(self) :
        p # q => self.history.arr[p].epoch # self.history.arr[q].epoch

\* C15 (as stated): there is one history record per epoch: after any sequence
\* of setter calls no two written slots of the buffer hold the same epoch
\* (unwritten slots, whose epoch is the sentinel 0xFFFF, excepted).
C15_OneRecordPerEpoch == OneRecordPerEpoch(vh)

\* C15 (amended): after any sequence of setter calls in which no appending
\* setter other than set_stake was called with an epoch older than the last
\* entry's, no two written slots hold the same epoch.
C15_OneRecordPerEpochInOrder == ordered => OneRecordPerEpoch(vh)

\* calls in order have appended entries for two epochs, and a set_stake for
\* the older epoch has found its slot instead of appending another
C15_Witness ==
    /\ ordered
    /\ op = "set_stake"
    /\ res = "Ok"
    /\ Cardinality(Written(vh)) = 2
    /\ arg[1] < last(vh.history)[1].epoch
    /\ touched = SlotsOf(vh, arg[1])

\* some epoch of the batch is cast to the value that marks a slot as unwritten
HasSentinelEpoch(batch) ==
    \E i \in DOMAIN batch : cast_epoch(batch[i][1]) = U16Max

\* the account a2 differs from a1 in epoch_credits fields at most
OnlyCreditsDiffer(a1, a2) ==
    /\ a2.last_ip_timestamp = a1.last_ip_timestamp
    /\ a2.last_version_timestamp = a1.last_version_timestamp
    /\ a2.history.idx = a1.history.idx
    /\ a2.history.is_empty = a1.history.is_empty
    /\ \A p \in Slots :
          [a2.history.arr[p] EXCEPT !.epoch_credits = a1.history.arr[p].epoch_credits]
            = a1.history.arr[p]

\* C16 (as stated): set_epoch_credits changes nothing but epoch_credits
\* fields: for every batch it leaves the cursor, the empty flag, both
\* watermarks and every other field of every slot unchanged and never pushes;
\* with an empty batch, or when called on an empty buffer, it returns success
\* and the whole state is unchanged.
C16_OnlyCreditsChange ==
    [][ op' = "set_epoch_credits" =>
          /\ OnlyCreditsDiffer(vh, vh')
          /\ arg'[1] = <<>> \/ is_empty(vh.history) =>
                res' = "Ok" /\ vh' = vh ]_vars

\* C16 (amended): the same frame for every batch; an empty batch returns
\* success with the state unchanged, and so does, on an empty buffer, a batch
\* that has no negative delta and no epoch cast to the sentinel.
C16_OnlyCreditsChangeValidBatch ==
    [][ op' = "set_epoch_credits" =>
          /\ OnlyCreditsDiffer(vh, vh')
          /\ arg'[1] = <<>> => res' = "Ok" /\ vh' = vh
          /\ /\ is_empty(vh.history)
             /\ ~HasNegativeDelta(arg'[1])
             /\ ~HasSentinelEpoch(arg'[1])
             => res' = "Ok" /\ vh' = vh ]_vars

\* a batch has overwritten the epoch_credits of two entries, whose epoch and
\* commission are as set_commission_and_slot left them
C16_Witness ==
    /\ op = "set_epoch_credits"
    /\ res = "Ok"
    /\ Cardinality(touched) = 2
    /\ \A p \in touched :
          /\ vh.history.arr[p].epoch \in CreditsEpochs
          /\ vh.history.arr[p].commission = 10
          /\ vh.history.arr[p].epoch_credits # U32Max

\* the sequence v of visited slots starts at slot idx and goes backward one
\* slot at a time, wrapping at index 0, without coming to a slot twice, and
\* the changed slots t are the visited ones, the last possibly excepted
WalkedBackwardOnce(idx, v, t) ==
    /\ Len(v) \in 1..MAX_ITEMS
    /\ v[1] = idx
    /\ \A k \in 1..Len(v) : v[k] = Behind(idx, k - 1)
    /\ \A j, k \in 1..Len(v) : j # k => v[j] # v[k]
    /\ t \in { {v[k] : k \in 1..Len(v)}, {v[k] : k \in 1..(Len(v) - 1)} }

\* C17: the backward walk of set_epoch_credits starts at the cursor slot,
\* visits slots in the order cursor, cursor-1, ..., 0, MAX_ITEMS-1, ...,
\* cursor+1 (wrapping at index 0), visits each slot at most once and ends
\* after at most MAX_ITEMS visited slots, also when every slot's epoch is in
\* the batch with a differing delta; the slots the call has changed are the
\* visited ones, the last one possibly excepted.
C17_WalkBackwardOnce ==
    [][ op' = "set_epoch_credits" /\ res' = "Ok" /\ arg'[1] # <<>> =>
          \A v \in { CreditsVisits(vh.history.arr, vh.history.idx,
                                    EpochCreditsMap(arg'[1])[1], 0) } :
              WalkedBackwardOnce(vh.history.idx, v, touched') ]_vars

\* a batch with a differing delta for the epoch of every slot has been
\* applied to a full ring whose cursor is in the middle: the walk went through
\* all MAX_ITEMS slots, across index 0, and stopped
C17_Witness ==
    /\ op = "set_epoch_credits"
    /\ res = "Ok"
    /\ touched = Slots
    /\ vh.history.idx = 1
    /\ \A p \in Slots :
          /\ vh.history.arr[p].epoch # U16Max
          /\ vh.history.arr[p].epoch_credits # U32Max

\* a u32 as the u64 of the same value
Widen(x) == <<0, 0, x[1], x[2]>>

\* no two triples of the batch have the same epoch
OneTriplePerEpoch(batch) ==
    \A i, j \in DOMAIN batch : i # j => batch[i][1] # batch[j][1]

\* C18: for a valid batch with at most one triple per epoch, every
\* epoch_credits value that set_epoch_credits writes into a slot equals
\* cumulative_credits_now - cumulative_credits_previous of the batch triple for
\* that slot's epoch, for all u64 inputs with now >= previous: the stored u32
\* is the 64-bit difference.
C18_WrittenValueIsTheDifference ==
    [][ /\ op' = "set_epoch_credits"
        /\ res' = "Ok"
        /\ OneTriplePerEpoch(arg'[1])
        => \A p \in touched' :
              \E i \in DOMAIN arg'[1] :
                 /\ cast_epoch(arg'[1][i][1]) = vh'.history.arr[p].epoch
                 /\ <<Widen(vh'.history.arr[p].epoch_credits)>> =
                      checked_sub(arg'[1][i][2], arg'[1][i][3]) ]_vars

\* the slot k places after the cursor: k = 1 is the oldest slot of a full
\* ring, k = MAX_ITEMS the cursor itself
After(idx, k) == (idx + k) % MAX_ITEMS

\* the written entries, read from the oldest slot forward to the cursor, have
\* strictly increasing epochs
EpochsIncreaseToCursor(self) ==
    \A j, k \in 1..MAX_ITEMS :
        /\ j < k
        /\ After(self.history.idx, j) \in Written(self)
        /\ After(self.history.idx, k) \in Written(self)
        => self.history.arr[After(self.history.idx, j)].epoch
             < self.history.arr[After(self.history.idx, k)].epoch

MevCalls(e) == { <<"set_mev_commission", <<e, c>>>> : c \in MevCommissions }

CommissionCalls(e) ==
    { <<"set_commission_and_slot", <<e, c>>>> : c \in CommissionInputs }

StakeCalls(e) == { <<"set_stake", <<e, s>>>> : s \in StakeInputs }

\* the pairs of calls of two different sources for epoch e
SourcePairs(e) ==
    (MevCalls(e) \X (CommissionCalls(e) \cup StakeCalls(e)))
      \cup (CommissionCalls(e) \X StakeCalls(e))

\* the account after call c
After1(self, c) == Apply(self, c[1], c[2]).self

\* cd and dc are what the calls c and d for epoch e, made on the account self
\* in the one and in the other order, return: both succeed and leave the same
\* account, whose cursor entry is for e and has the fields of both, after one
\* push at most
SameOutcome(self, e, c, d, cd, dc) ==
    LET h == cd.self.history
    IN  /\ cd.res = "Ok" /\ dc.res = "Ok"
        /\ cd.self = dc.self
        /\ h.is_empty = 0
        /\ h.arr[h.idx].epoch = e
        /\ h.arr[h.idx] = Overlay(Overlay(h.arr[h.idx], TargetFields(c[1], c[2])),
                                  TargetFields(d[1], d[2]))
        /\ h.idx = IF LastHasEpoch(self.history, e)
                   THEN self.history.idx
                   ELSE (self.history.idx + 1) % MAX_ITEMS
        /\ \A p \in Slots \ {h.idx} : h.arr[p] = self.history.arr[p]

\* the epochs the claim is about: those not older than the last entry's
EpochsNotOlder(self) ==
    { e \in AppendEpochs :
        is_empty(self.history) \/ e >= self.history.arr[self.history.idx].epoch }

\* C20 (as stated): field updates from independent sources commute: from any
\* reachable state and for any epoch e such that the buffer is empty or
\* e >= last().epoch, applying any two of set_mev_commission(e, ..),
\* set_commission_and_slot(e, ..) and set_stake(e, ..) in either order results
\* in the same final state, with a single entry for e carrying the fields of
\* both updates.
C20_SourcesCommuteSingleEntry ==
    \A e \in EpochsNotOlder(vh) : \A t \in SourcePairs(e) :
        \A cd \in {Apply(After1(vh, t[1]), t[2][1], t[2][2])},
           dc \in {Apply(After1(vh, t[2]), t[1][1], t[1][2])} :
            /\ SameOutcome(vh, e, t[1], t[2], cd, dc)
            /\ Cardinality(SlotsOf(cd.self, e)) = 1

\* C20 (amended): the two calls commute and their fields are in one entry for
\* e, at the cursor; that entry is the only one for e when no appending setter
\* other than set_stake was called with an epoch older than the last entry's.
C20_SourcesCommute ==
    \A e \in EpochsNotOlder(vh) : \A t \in SourcePairs(e) :
        \A cd \in {Apply(After1(vh, t[1]), t[2][1], t[2][2])},
           dc \in {Apply(After1(vh, t[2]), t[1][1], t[1][2])} :
            /\ SameOutcome(vh, e, t[1], t[2], cd, dc)
            /\ ordered => Cardinality(SlotsOf(cd.self, e)) = 1

\* set_mev_commission appended an entry for an epoch newer than the last
\* entry's and set_stake for that epoch then wrote into it: one entry has the
\* fields of both
C20_Witness ==
    /\ ordered
    /\ op = "set_stake"
    /\ res = "Ok"
    /\ calls = 3
    /\ vh.history.idx = 2
    /\ touched = {2}
    /\ vh.history.arr[2].epoch = arg[1]
    /\ vh.history.arr[2].mev_commission = 500
    /\ vh.history.arr[2].activated_stake_lamports = arg[2][1]
    /\ vh.history.arr[2].commission = U8Max
    /\ vh.history.arr[1].epoch < arg[1]

====
